---------------------------- MODULE Spec2Model ----------------------------
(***************************************************************************)
(* A model of the PubMed query-refinement engine:                          *)
(*   app/services/query_evaluator.py  (QueryEvaluator)                     *)
(*   app/services/pubmed_service.py   (PubMedService)                      *)
(*   app/services/query_generator.py  (QueryGenerator)                     *)
(*   app/api/routes.py                (search_pubmed)                      *)
(*                                                                         *)
(* Scores are Python floats in the source.  They are modelled as exact     *)
(* rationals <<numerator, denominator>> in lowest terms.                   *)
(*                                                                         *)
(* A query string is modelled as the sequence of its tokens: terms (a      *)
(* quoted term carries its quotes, written ' for "), field qualifiers      *)
(* ("[tiab]", "[Title]", ...), parentheses and the operators "AND" / "OR"  *)
(* (standing for " AND " / " OR ").  Two strings are equal exactly when    *)
(* their token sequences are equal.                                        *)
(*                                                                         *)
(* A title or an abstract is a string; the substring tests the source      *)
(* makes on its lower-cased text are modelled by the table of vocabulary   *)
(* phrases that occur in it (TitlePhrases, AbstractPhrases).               *)
(***************************************************************************)
EXTENDS Integers, Sequences, FiniteSets, TLC

---------------------------------------------------------------------------
(* Bounds of the model *)

\* largest max_iterations a run is started with
MaxIterations == 3

\* largest total_count the evaluator is applied to on its own
MaxCount == 1100

\* longest title sample the evaluator is applied to on its own
MaxSample == 5

---------------------------------------------------------------------------
(* Program constants *)

\* query_evaluator.py:231  ideal range of result counts
IdealMin == 100
IdealMax == 500
\* query_evaluator.py:261,267
VeryFew == 20
ExtremelyMany == 1000
\* query_evaluator.py:362,386,395  thresholds of the rewrite rules
RewriteFew == 10
RewriteMany == 100
RewriteHuge == 1000
\* query_evaluator.py:372  a query with more AND-parts than this loses its last
MinPartsToDrop == 3
\* pubmed_service.py:86  titles are fetched for this many leading ids
MetadataSample == 5

\* Python's None where a list is optional: a value no list of the model equals
None == <<"None">>

---------------------------------------------------------------------------
(* Exact rational arithmetic standing for the float arithmetic *)

GCD[a \in Nat, b \in Nat] == IF b = 0 THEN a ELSE GCD[b, a % b]

Abs(x) == IF x < 0 THEN -x ELSE x

Rat(n, d) ==
    LET g == GCD[Abs(n), Abs(d)]
    IN  IF g = 0 THEN <<0, 1>> ELSE <<n \div g, d \div g>>

\* sum and product; the operands are bound to their values before use
RAdd(x, y) ==
    CHOOSE r \in {Rat(a[1] * b[2] + b[1] * a[2], a[2] * b[2]) :
                     a \in {x}, b \in {y}} : TRUE
RMul(x, y) ==
    CHOOSE r \in {Rat(a[1] * b[1], a[2] * b[2]) : a \in {x}, b \in {y}} : TRUE
RLt(x, y) == x[1] * y[2] < y[1] * x[2]
RLe(x, y) == x[1] * y[2] <= y[1] * x[2]
RGt(x, y) == RLt(y, x)
RGe(x, y) == RLe(y, x)

Zero == Rat(0, 1)
One == Rat(1, 1)

---------------------------------------------------------------------------
(* QueryEvaluator: the evaluation of a search result *)

\* self.keywords
primary_studies ==
    {"randomized", "trial", "cohort", "case-control", "observational",
     "cross-sectional", "longitudinal", "prospective", "retrospective"}

systematic_reviews ==
    {"systematic review", "meta-analysis", "systematic literature review",
     "evidence synthesis", "umbrella review"}

\* the issue messages of _identify_issues
MsgVerySpecific == "Consulta muito especifica, poucos resultados encontrados"
MsgSpecific == "Consulta relativamente especifica, considere ampliar os termos"
MsgBroad == "Consulta muito ampla, considere restringir os termos"
MsgVeryBroad == "Consulta extremamente ampla, necessita maior especificidade"
MsgLowPrimary == "Baixa proporcao de estudos primarios"
MsgFewRelevant == "Poucos estudos relevantes encontrados"
MsgNoIssue == "Nenhum problema especifico identificado"

\* a count score that does not fall above the ideal range
calculate_count_score_flat(count) ==
    IF IdealMin <= count /\ count <= IdealMax THEN One
    ELSE IF count < IdealMin THEN Rat(count, IdealMin)
    ELSE One

\* a count score that starts above 0 for an empty result
calculate_count_score_floor(count) ==
    IF IdealMin <= count /\ count <= IdealMax THEN One
    ELSE IF count < IdealMin THEN Rat(count + 1, IdealMin + 1)
    ELSE Rat(IdealMax, count)

\* _calculate_count_score
calculate_count_score(count) ==
    IF IdealMin <= count /\ count <= IdealMax THEN One
    ELSE IF count < IdealMin THEN Rat(count, IdealMin)
    ELSE IF count > 0 THEN Rat(IdealMax, count) ELSE Zero

\* a diagnosis that looks at the count alone
identify_issues_count_only(count, primary_ratio, review_ratio) ==
    IF count < VeryFew THEN <<MsgVerySpecific>>
    ELSE IF count < IdealMin THEN <<MsgSpecific>>
    ELSE IF count > IdealMax THEN <<MsgBroad>>
    ELSE <<MsgNoIssue>>

\* a diagnosis whose few-relevant issue looks at the review ratio alone
identify_issues_reviews_only(count, primary_ratio, review_ratio) ==
    LET issues ==
            (IF count < VeryFew THEN <<MsgVerySpecific>>
             ELSE IF count < IdealMin THEN <<MsgSpecific>>
             ELSE IF count > IdealMax THEN <<MsgBroad>>
             ELSE <<>>)
            \o (IF RLt(primary_ratio, Rat(2, 10)) THEN <<MsgLowPrimary>>
                ELSE <<>>)
            \o (IF RLt(review_ratio, Rat(1, 10)) THEN <<MsgFewRelevant>>
                ELSE <<>>)
    IN  IF issues # <<>> THEN issues ELSE <<MsgNoIssue>>

\* _identify_issues: the list of messages before "; ".join, or the sentinel.
\* The branch for count > 1000 follows the branch for count > 500 in an
\* if/elif chain, as in the source.
identify_issues(count, primary_ratio, review_ratio) ==
    LET countIssue ==
            IF count < VeryFew THEN <<MsgVerySpecific>>
            ELSE IF count < IdealMin THEN <<MsgSpecific>>
            ELSE IF count > IdealMax THEN <<MsgBroad>>
            ELSE IF count > ExtremelyMany THEN <<MsgVeryBroad>>
            ELSE <<>>
        primaryIssue ==
            IF RLt(primary_ratio, Rat(2, 10)) THEN <<MsgLowPrimary>> ELSE <<>>
        reviewIssue ==
            IF RLt(review_ratio, Rat(1, 10)) /\ RLt(primary_ratio, Rat(3, 10))
            THEN <<MsgFewRelevant>> ELSE <<>>
        issues == countIssue \o primaryIssue \o reviewIssue
    IN  IF issues # <<>> THEN issues ELSE <<MsgNoIssue>>

\* The titles the backend answers with, and the keyword phrases that occur
\* in title.lower()
TitlePlain == "Metformin in type 2 diabetes"
TitleTrial == "A Randomized Trial of metformin"
TitleReview == "Metformin: a Meta-Analysis"
TitleBoth == "Meta-analysis of randomized trials"

Titles == {TitlePlain, TitleTrial, TitleReview, TitleBoth}

TitlePhrases(title) ==
    CASE title = TitleTrial -> {"randomized", "trial"}
      [] title = TitleReview -> {"meta-analysis"}
      [] title = TitleBoth -> {"meta-analysis", "randomized", "trial"}
      [] OTHER -> {}

\* any(kw.lower() in title_lower for kw in keywords)
TitleHas(title, keywords) == \E kw \in keywords : kw \in TitlePhrases(title)

\* a count of every keyword occurrence instead of every title with one
RECURSIVE CountTitles_hits(_, _)
CountTitles_hits(titles, keywords) ==
    IF titles = <<>> THEN 0
    ELSE Cardinality(keywords \cap TitlePhrases(Head(titles)))
         + CountTitles_hits(Tail(titles), keywords)

\* the loop over result.sample_titles: the titles with a keyword in them
RECURSIVE CountTitles(_, _)
CountTitles(titles, keywords) ==
    IF titles = <<>> THEN 0
    ELSE (IF TitleHas(Head(titles), keywords) THEN 1 ELSE 0)
         + CountTitles(Tail(titles), keywords)

\* "if result.sample_titles": neither None nor the empty list
Truthy(list) == list # None /\ list # <<>>

\* an evaluation whose overall score weighs the review ratio negatively
evaluate_search_result_skewed(result) ==
    LET n == IF Truthy(result.sample_titles) THEN Len(result.sample_titles) ELSE 1
        p == Rat(IF Truthy(result.sample_titles)
                 THEN CountTitles(result.sample_titles, primary_studies) ELSE 0, n)
        r == Rat(IF Truthy(result.sample_titles)
                 THEN CountTitles(result.sample_titles, systematic_reviews) ELSE 0, n)
        cs == calculate_count_score(result.total_count)
        rel == RAdd(RMul(Rat(7, 10), p), RMul(Rat(3, 10), r))
    IN  [total_count |-> result.total_count,
         count_score |-> cs,
         primary_studies_ratio |-> p,
         systematic_reviews_ratio |-> r,
         average_relevance |-> rel,
         overall_score |-> RAdd(RAdd(RMul(Rat(5, 10), cs), RMul(Rat(3, 10), p)),
                                RAdd(RMul(Rat(1, 10), Rat(n - r[1] * (n \div r[2]), n)),
                                     RMul(Rat(1, 10), rel))),
         issues |-> identify_issues(result.total_count, p, r)]

\* _evaluate_search_result
evaluate_search_result(result) ==
    LET total_count == result.total_count
        count_score == calculate_count_score(total_count)
        primary == IF Truthy(result.sample_titles)
                   THEN CountTitles(result.sample_titles, primary_studies) ELSE 0
        reviews == IF Truthy(result.sample_titles)
                   THEN CountTitles(result.sample_titles, systematic_reviews) ELSE 0
        sample_size == IF Truthy(result.sample_titles)
                       THEN Len(result.sample_titles) ELSE 1
        primary_studies_ratio == Rat(primary, sample_size)
        systematic_reviews_ratio == Rat(reviews, sample_size)
        relevance_score == RAdd(RMul(Rat(7, 10), primary_studies_ratio),
                                RMul(Rat(3, 10), systematic_reviews_ratio))
        overall_score ==
            RAdd(RAdd(RMul(Rat(5, 10), count_score),
                      RMul(Rat(3, 10), primary_studies_ratio)),
                 RAdd(RMul(Rat(1, 10), systematic_reviews_ratio),
                      RMul(Rat(1, 10), relevance_score)))
    IN  [total_count |-> total_count,
         count_score |-> count_score,
         primary_studies_ratio |-> primary_studies_ratio,
         systematic_reviews_ratio |-> systematic_reviews_ratio,
         average_relevance |-> relevance_score,
         overall_score |-> overall_score,
         issues |-> identify_issues(total_count, primary_studies_ratio,
                                    systematic_reviews_ratio)]

\* a good-enough check without the condition on the overall score
is_query_good_enough_no_score(evaluation) ==
    /\ IdealMin <= evaluation.total_count
    /\ evaluation.total_count <= IdealMax
    /\ RGe(evaluation.primary_studies_ratio, Rat(3, 10))

\* a good-enough check that asks for an overall score of 0.8
is_query_good_enough_strict(evaluation) ==
    /\ IdealMin <= evaluation.total_count
    /\ evaluation.total_count <= IdealMax
    /\ RGe(evaluation.primary_studies_ratio, Rat(3, 10))
    /\ RGe(evaluation.overall_score, Rat(8, 10))

\* a good-enough check that never holds
is_query_good_enough_never(evaluation) == FALSE

\* _is_query_good_enough
is_query_good_enough(evaluation) ==
    LET count_in_range == IdealMin <= evaluation.total_count
                          /\ evaluation.total_count <= IdealMax
        good_primary_ratio == RGe(evaluation.primary_studies_ratio, Rat(3, 10))
        good_overall_score == RGe(evaluation.overall_score, Rat(7, 10))
    IN  count_in_range /\ good_primary_ratio /\ good_overall_score

---------------------------------------------------------------------------
(* PubMedService *)

\* the PMIDs of an esearch answer
SomeIds == <<"31000001", "31000002">>

\* search(): what it makes of the esearch answer and of the esummary answer.
\* esearch = [status, count, ids]; esummary = [status, titles].
\* A result with status "raised" stands for the HTTPException search raises.
get_articles_metadata(pmids, esummary) ==
    IF pmids = <<>> THEN <<>>
    ELSE IF esummary.status # "ok" THEN <<>>
    ELSE esummary.titles

SearchRaised == [status |-> "raised", total_count |-> 0, ids |-> <<>>,
                 sample_titles |-> None]

\* a search that answers a failed esearch call with an empty result
search_swallows(query, esearch, esummary) ==
    IF esearch.status # "ok" \/ esearch.ids = <<>>
    THEN [status |-> "ok", total_count |-> 0, ids |-> <<>>,
          sample_titles |-> None]
    ELSE [status |-> "ok", total_count |-> esearch.count, ids |-> esearch.ids,
          sample_titles |-> get_articles_metadata(esearch.ids, esummary)]

\* a search that raises when the esummary call fails
search_strict(query, esearch, esummary) ==
    IF esearch.status # "ok" THEN SearchRaised
    ELSE IF esearch.ids = <<>>
         THEN [status |-> "ok", total_count |-> 0, ids |-> <<>>,
               sample_titles |-> None]
    ELSE IF esummary.status # "ok" THEN SearchRaised
    ELSE [status |-> "ok", total_count |-> esearch.count, ids |-> esearch.ids,
          sample_titles |-> esummary.titles]

\* a search that raises when the backend finds nothing
search_rejects_empty(query, esearch, esummary) ==
    IF esearch.status # "ok" \/ esearch.ids = <<>> THEN SearchRaised
    ELSE [status |-> "ok", total_count |-> esearch.count, ids |-> esearch.ids,
          sample_titles |-> get_articles_metadata(esearch.ids, esummary)]

search(query, esearch, esummary) ==
    IF esearch.status # "ok" THEN SearchRaised
    ELSE IF esearch.ids = <<>>
         THEN [status |-> "ok", total_count |-> 0, ids |-> <<>>,
               sample_titles |-> None]
    ELSE IF esearch.count > 0
         THEN [status |-> "ok", total_count |-> esearch.count,
               ids |-> esearch.ids,
               sample_titles |->
                   get_articles_metadata(
                       SubSeq(esearch.ids, 1,
                              IF Len(esearch.ids) < MetadataSample
                              THEN Len(esearch.ids) ELSE MetadataSample),
                       esummary)]
    ELSE [status |-> "ok", total_count |-> esearch.count, ids |-> esearch.ids,
          sample_titles |-> <<>>]

\* get_article_abstracts(): the list it returns for an efetch answer
\* efetch = [status, abstracts]; every failure is answered with the empty list
get_article_abstracts(pmids, efetch) ==
    IF pmids = <<>> THEN <<>>
    ELSE IF efetch.status # "ok" THEN <<>>
    ELSE efetch.abstracts

\* The abstracts the backend answers with.  AbstractBlank is an article whose
\* AbstractText holds white space only: abstract_text.strip() leaves it the
\* empty string.
AbstractRelevant == "Metformin therapy in patients with type 2 diabetes"
AbstractOther == "Statins in arterial hypertension"
AbstractBlank == ""

\* the patterns of _refine_with_deepseek_llm that occur in abstract.lower()
AbstractPhrases(abstract) ==
    CASE abstract = AbstractRelevant ->
            {"type 2 diabetes", "metformin", "met", "metformin therapy"}
      [] OTHER -> {}

---------------------------------------------------------------------------
(* QueryEvaluator: the rewrite of a query *)

\* str.replace(old, new) where old is one token and new a token sequence
RECURSIVE Replace(_, _, _)
Replace(query, old, new) ==
    IF query = <<>> THEN <<>>
    ELSE (IF Head(query) = old THEN new ELSE <<Head(query)>>)
         \o Replace(Tail(query), old, new)

Qualifiers == {"[Title]", "[Title/Abstract]", "[MeSH Terms]", "[All Fields]",
               "[tiab]", "[pt]", "[Filter]"}

\* str.replace("]", "]" + new): every qualifier ends with the one "]" it holds
RECURSIVE InsertAfterBracket(_, _)
InsertAfterBracket(query, new) ==
    IF query = <<>> THEN <<>>
    ELSE (IF Head(query) \in Qualifiers THEN <<Head(query)>> \o new
          ELSE <<Head(query)>>)
         \o InsertAfterBracket(Tail(query), new)

\* len(query.split(" AND "))
RECURSIVE CountAnd(_)
CountAnd(query) ==
    IF query = <<>> THEN 0
    ELSE (IF Head(query) = "AND" THEN 1 ELSE 0) + CountAnd(Tail(query))

NumParts(query) == CountAnd(query) + 1

\* " AND ".join(parts[:-1]): the query up to its last " AND "
LastAnd(query) ==
    CHOOSE i \in 1..Len(query) :
        query[i] = "AND" /\ \A j \in (i + 1)..Len(query) : query[j] # "AND"

\* a join that keeps none of the parts
DropLastPart_none(query) == <<>>

DropLastPart(query) == SubSeq(query, 1, LastAnd(query) - 1)

\* "systematic" in current_query
HasSystematic(query) ==
    \E i \in 1..Len(query) : query[i] \in {"'systematic review'", "systematic"}

\* needle in issues, issues being the joined messages: msgs are the messages
\* the needle is a substring of
IssuesHave(issues, msgs) == \E i \in 1..Len(issues) : issues[i] \in msgs

pop_patterns == <<"type 2 diabetes", "t2dm", "diabetes mellitus",
                  "diabetic patients", "diabetes type 2", "type 2 diabetic">>

int_patterns == <<"metformin", "met", "biguanide", "oral antidiabetic",
                  "metformin treatment", "metformin therapy">>

\* the patterns found in one abstract, appended in pattern order to found
RECURSIVE ScanPatterns(_, _, _)
ScanPatterns(patterns, text, found) ==
    IF patterns = <<>> THEN found
    ELSE ScanPatterns(
             Tail(patterns), text,
             IF Head(patterns) \in AbstractPhrases(text)
                /\ ~ \E i \in 1..Len(found) : found[i] = Head(patterns)
             THEN Append(found, Head(patterns)) ELSE found)

RECURSIVE ScanAbstracts(_, _, _)
ScanAbstracts(patterns, abstracts_data, found) ==
    IF abstracts_data = <<>> THEN found
    ELSE ScanAbstracts(
             patterns, Tail(abstracts_data),
             IF Head(abstracts_data) # ""
             THEN ScanPatterns(patterns, Head(abstracts_data), found)
             ELSE found)

\* f'"{term}"'
Quote(term) == "'" \o term \o "'"

\* " OR ".join(['"term"[tiab]' for term in terms])
RECURSIVE OrJoin(_)
OrJoin(terms) ==
    IF terms = <<>> THEN <<>>
    ELSE IF Len(terms) = 1 THEN <<Quote(Head(terms)), "[tiab]">>
    ELSE <<Quote(Head(terms)), "[tiab]", "OR">> \o OrJoin(Tail(terms))

FirstN(seq, n) == SubSeq(seq, 1, IF Len(seq) < n THEN Len(seq) ELSE n)

\* _refine_with_deepseek_llm
refine_with_deepseek_llm(current_query, abstracts_data, mode) ==
    LET hasText == \E i \in 1..Len(abstracts_data) : abstracts_data[i] # ""
        specific_pop_terms == ScanAbstracts(pop_patterns, abstracts_data, <<>>)
        specific_int_terms == ScanAbstracts(int_patterns, abstracts_data, <<>>)
        population ==
            IF specific_pop_terms # <<>>
            THEN <<"(">> \o OrJoin(FirstN(specific_pop_terms, 3)) \o <<")">>
            ELSE <<"(", "'diabetes type 2'", "[tiab]", "OR", "'T2DM'", "[tiab]", ")">>
        intervention ==
            IF specific_int_terms # <<>>
            THEN <<"AND", "(">> \o OrJoin(FirstN(specific_int_terms, 2)) \o <<")">>
            ELSE <<"AND", "(", "'metformin'", "[tiab]", ")">>
        study_type ==
            IF mode = "relevance" \/ mode = "restrict"
            THEN <<"AND", "(", "'randomized controlled trial'", "[tiab]", "OR",
                   "'RCT'", "[tiab]", ")">>
            ELSE <<>>
    IN  IF ~hasText THEN current_query
        ELSE population \o intervention \o study_type

\* _generate_refined_query, given the abstracts its own fetch returned
\* (abstracts_data is the empty list when there are no ids or the fetch failed)
generate_refined_query(current_query, evaluation, abstracts_data) ==
    LET issues == evaluation.issues
        total_count == evaluation.total_count
    IN  IF issues = <<>> THEN current_query
        ELSE IF IssuesHave(issues, {MsgVerySpecific}) \/ total_count < RewriteFew
        THEN IF abstracts_data # <<>>
             THEN refine_with_deepseek_llm(current_query, abstracts_data, "expand")
             ELSE IF NumParts(current_query) > MinPartsToDrop
             THEN DropLastPart(current_query)
             ELSE Replace(Replace(current_query, "[Title]", <<"[Title/Abstract]">>),
                          "[MeSH Terms]", <<"[MeSH Terms]", "OR", "[All Fields]">>)
        ELSE IF IssuesHave(issues, {MsgBroad}) \/ total_count > RewriteMany
        THEN IF abstracts_data # <<>>
             THEN refine_with_deepseek_llm(current_query, abstracts_data, "restrict")
             ELSE IF total_count > RewriteHuge
             THEN Replace(current_query, "[All Fields]", <<"[tiab]">>)
                  \o <<"AND", "(", "'randomized'", "[tiab]", "OR",
                       "'controlled'", "[tiab]", ")">>
             ELSE current_query \o <<"AND", "'human'", "[Filter]">>
        ELSE IF IssuesHave(issues, {MsgLowPrimary})
        THEN IF abstracts_data # <<>>
             THEN current_query
                  \o <<"AND", "(">>
                  \o OrJoin(<<"trial", "randomized", "controlled", "cohort",
                              "prospective", "retrospective">>)
                  \o <<")">>
             ELSE current_query
                  \o <<"AND", "(", "randomized", "[tiab]", "OR", "trial", "[tiab]", ")">>
        ELSE IF IssuesHave(issues, {MsgFewRelevant})
        THEN IF abstracts_data # <<>>
             THEN refine_with_deepseek_llm(current_query, abstracts_data, "relevance")
             ELSE IF ~HasSystematic(current_query)
             THEN InsertAfterBracket(
                      current_query,
                      <<"AND", "(", "'effect'", "[tiab]", "OR", "'outcome'", "[tiab]", ")">>)
             ELSE current_query
        ELSE current_query

---------------------------------------------------------------------------
(* The inputs a run is explored with *)

\* the request body of POST /search
PicottText == "P: adults with type 2 diabetes; I: metformin; O: HbA1c"

\* the JSON body of the request: whether it has the key picott_text, and the
\* key's value
RequestBody(present, text) == [present |-> present, picott_text |-> text]

\* what the generative backend answers for the initial query
QueryTiab == <<"'diabetes'", "[tiab]", "AND", "'metformin'", "[tiab]">>
QueryFields == <<"diabetes", "[Title]", "AND", "metformin", "[MeSH Terms]">>
QueryLong == <<"diabetes tipo 2", "[tiab]", "AND", "metformina", "[tiab]",
               "AND", "HbA1c", "[tiab]", "AND",
               "randomized controlled trial", "[pt]">>

LlmResponses ==
    {[status |-> "error", text |-> <<>>],
     [status |-> "ok", text |-> QueryTiab],
     [status |-> "ok", text |-> QueryFields],
     [status |-> "ok", text |-> QueryLong]}

Esearch(status, count, ids) == [status |-> status, count |-> count, ids |-> ids]
Esummary(status, titles) == [status |-> status, titles |-> titles]
Backend(esearch, esummary) == [esearch |-> esearch, esummary |-> esummary]

\* the answers of the E-utilities backend to one search: esearch, then esummary
BackendResponses ==
    {Backend(Esearch("error", 0, <<>>), Esummary("error", <<>>)),
     Backend(Esearch("ok", 0, <<>>), Esummary("error", <<>>)),
     Backend(Esearch("ok", 15, SomeIds), Esummary("error", <<>>)),
     Backend(Esearch("ok", 42, SomeIds), Esummary("ok", <<TitleTrial>>)),
     Backend(Esearch("ok", 300, SomeIds), Esummary("ok", <<TitleTrial, TitleBoth>>)),
     Backend(Esearch("ok", 300, SomeIds), Esummary("ok", <<TitleTrial, TitlePlain>>)),
     Backend(Esearch("ok", 300, SomeIds), Esummary("ok", <<TitleReview>>)),
     Backend(Esearch("ok", 700, SomeIds), Esummary("ok", <<TitleBoth>>)),
     Backend(Esearch("ok", 1500, SomeIds), Esummary("ok", <<TitlePlain>>))}

Efetch(status, abstracts) == [status |-> status, abstracts |-> abstracts]

\* the answers of efetch to the fetch of an iteration's abstracts sample
SampleEfetchResponses ==
    {Efetch("error", <<>>), Efetch("ok", <<AbstractRelevant>>)}

\* the answers of efetch to the fetch _generate_refined_query makes
RewriteEfetchResponses ==
    {Efetch("error", <<>>), Efetch("ok", <<AbstractRelevant>>),
     Efetch("ok", <<AbstractOther>>), Efetch("ok", <<AbstractBlank>>)}

---------------------------------------------------------------------------
(* The state of one request *)

VARIABLES
    pc,               \* the await the request is suspended at, or done / error
    settings,         \* the configured API keys (present or not)
    max_iterations,   \* refine_query's parameter
    initial_query,    \* refine_query's parameter
    current_query, iterations, best_query, best_score,   \* refine_query's locals
    search_result, evaluation, score, i,                  \* refine_query's locals
    response,         \* what search_pubmed answers
    searched,         \* history: the queries passed to pubmed_service.search
    rewrites,         \* history: the strings _generate_refined_query returned
    fetched,          \* history: outcome of the abstracts fetch of the last step
    answered,         \* history: the backend's answers to the last search
    body,             \* the request body search_pubmed was called with
    parked,           \* the frame of a second request suspended at an await
    running,          \* which of the two requests the frame variables belong to
    llm_calls,        \* history: the generative backends called, in order
    ev_result, ev_out, ev_prev,  \* the evaluator applied on its own
    ev_again          \* a second evaluation of the same result

reqVars == <<body, parked, running, llm_calls>>
runVars == <<pc, settings, max_iterations, initial_query, current_query,
             iterations, best_query, best_score, search_result, evaluation,
             score, i, response, searched, rewrites, fetched, answered,
             reqVars>>
evVars == <<ev_result, ev_out, ev_prev, ev_again>>
vars == <<runVars, evVars>>

NoQuery == <<>>
NoResult == [status |-> "none", total_count |-> 0, ids |-> <<>>,
             sample_titles |-> None]
NoEvaluation == [total_count |-> 0, count_score |-> Zero,
                 primary_studies_ratio |-> Zero,
                 systematic_reviews_ratio |-> Zero,
                 average_relevance |-> Zero, overall_score |-> Zero,
                 issues |-> <<>>]
NoResponse == [status |-> 0]
NoAnswer == [esearch |-> [status |-> "none", count |-> 0, ids |-> <<>>],
             esummary |-> [status |-> "none", titles |-> <<>>]]

\* _get_refinement_reason
get_refinement_reason(ev) ==
    IF ev.issues = <<>> \/ ev.issues = <<MsgNoIssue>>
    THEN <<"Refinamento para melhorar a qualidade geral da consulta">>
    ELSE <<"Refinamento necessario para corrigir: ">> \o ev.issues

\* a record that does not keep the count of its search
QueryIteration_uncounted(iteration_number, query, result_count, ev, reason) ==
    [iteration_number |-> iteration_number, query |-> query,
     result_count |-> 0, evaluation |-> ev, refinement_reason |-> reason]

\* a record numbered from 0
QueryIteration_zero_based(iteration_number, query, result_count, ev, reason) ==
    [iteration_number |-> iteration_number - 1, query |-> query,
     result_count |-> result_count, evaluation |-> ev,
     refinement_reason |-> reason]

\* QueryIteration(...): the fields the schema declares
QueryIteration(iteration_number, query, result_count, ev, refinement_reason) ==
    [iteration_number |-> iteration_number, query |-> query,
     result_count |-> result_count, evaluation |-> ev,
     refinement_reason |-> refinement_reason]

\* search_pubmed: the response built from refine_query's return value
PubMedSearchResponse(best, its) ==
    [status |-> 200, original_query |-> body.picott_text,
     best_pubmed_query |-> best, iterations |-> its]

\* search_pubmed: "except Exception" answers every failure with status 500
ErrorResponse(stage) == [status |-> 500, detail |-> stage]

\* no second request
NoFrame == [pc |-> "none"]

LocalsInit ==
    /\ settings \in [DEEPSEEK_API_KEY : BOOLEAN, OPENAI_API_KEY : BOOLEAN]
    /\ max_iterations \in 1..MaxIterations
    /\ initial_query = NoQuery
    /\ current_query = NoQuery
    /\ iterations = <<>>
    /\ best_query = NoQuery
    /\ best_score = Zero
    /\ search_result = NoResult
    /\ evaluation = NoEvaluation
    /\ score = Zero
    /\ i = 1
    /\ response = NoResponse
    /\ searched = <<>>
    /\ rewrites = <<>>
    /\ fetched = "none"
    /\ answered = NoAnswer
    /\ llm_calls = <<>>

RunInit ==
    /\ pc = "generate"
    /\ body = RequestBody(TRUE, PicottText)
    /\ parked = NoFrame
    /\ running = 1
    /\ LocalsInit

\* refine_query returns (query, iterations) and search_pubmed answers with it
Return(query, its) ==
    /\ pc' = "done"
    /\ response' = PubMedSearchResponse(query, its)

\* an error answer that carries the records made so far
Raise_partial(stage) ==
    /\ pc' = "error"
    /\ response' = [status |-> 500, detail |-> stage, iterations |-> iterations]

\* an exception leaves refine_query and search_pubmed answers 500
Raise(stage) ==
    /\ pc' = "error"
    /\ response' = ErrorResponse(stage)

\* a loop that keeps as best a query it never ran: the query less its last
\* part
UpdateBest_unrun(query, sc) ==
    IF RGt(sc, best_score) THEN <<DropLastPart(query), sc>>
    ELSE <<best_query, best_score>>

\* "if score > best_score": the pair (best_query, best_score) after the update
UpdateBest(query, sc) ==
    IF RGt(sc, best_score) THEN <<query, sc>> ELSE <<best_query, best_score>>

\* a loop without the no-progress guard
IsNoProgress_never(refined_query, query) == FALSE

\* a guard that stops on a changed query and goes on with an unchanged one
IsNoProgress_inverted(refined_query, query) == refined_query # query

\* "if refined_query == current_query": the no-progress guard
IsNoProgress(refined_query, query) == refined_query = query

\* a loop that runs one iteration more, and one that runs one less
LoopHasNext_inclusive(j) == j <= max_iterations
LoopHasNext_short(j) == j + 2 <= max_iterations

\* a loop that never runs
LoopHasNext_never(j) == FALSE

\* the range of the refinement loop: "for i in range(2, max_iterations + 1)"
LoopHasNext(j) == j + 1 <= max_iterations

\* refine_query from the append of the iteration record to the next await:
\* lines 76-99 for the first iteration, lines 127-147 and the loop head for
\* the others
RecordIteration(result, ev, sc) ==
    LET reason == IF i = 1
                  THEN <<"Consulta inicial gerada a partir do texto PICOTT">>
                  ELSE get_refinement_reason(ev)
        its == Append(iterations,
                      QueryIteration(i, current_query, result.total_count,
                                     ev, reason))
        best == UpdateBest(current_query, sc)
    IN  /\ iterations' = its
        /\ IF i = 1 /\ is_query_good_enough(ev)
           THEN /\ Return(current_query, its)
                /\ UNCHANGED <<best_query, best_score, i>>
           ELSE /\ best_query' = best[1]
                /\ best_score' = best[2]
                /\ IF i > 1 /\ is_query_good_enough(ev)
                   THEN Return(best[1], its) /\ UNCHANGED i
                   ELSE IF LoopHasNext(i)
                   THEN /\ i' = i + 1
                        /\ pc' = "rewrite"
                        /\ UNCHANGED response
                   ELSE Return(best[1], its) /\ UNCHANGED i

\* a generator that prefers OpenAI
ChooseBackend_openai_first(keys) ==
    IF keys.OPENAI_API_KEY THEN "openai"
    ELSE IF keys.DEEPSEEK_API_KEY THEN "deepseek"
    ELSE "none"

\* generate_initial_query and QueryGenerator.refine_query: the backend the
\* if/elif/else on the two keys selects ("none": the else branch raises)
ChooseBackend(keys) ==
    IF keys.DEEPSEEK_API_KEY THEN "deepseek"
    ELSE IF keys.OPENAI_API_KEY THEN "openai"
    ELSE "none"

\* a generator that calls the backend without looking at the keys
GenerateInitialQuery_unchecked ==
    /\ pc = "generate"
    /\ \E llm \in LlmResponses :
        IF llm.status # "ok"
        THEN /\ Raise("generate")
             /\ UNCHANGED <<initial_query, current_query, best_query, searched>>
        ELSE /\ initial_query' = llm.text
             /\ current_query' = llm.text
             /\ best_query' = llm.text
             /\ searched' = <<llm.text>>
             /\ pc' = "search"
             /\ UNCHANGED response
    /\ llm_calls' = Append(llm_calls, "deepseek")
    /\ UNCHANGED <<settings, max_iterations, iterations, best_score,
                   search_result, evaluation, score, i, rewrites, fetched,
                   answered>>
    /\ UNCHANGED <<body, parked, running>>
    /\ UNCHANGED evVars

\* search_pubmed up to the first search: generate_initial_query, then
\* refine_query's lines 53-61
GenerateInitialQuery ==
    /\ pc = "generate"
    /\ \E llm \in LlmResponses :
        IF ChooseBackend(settings) = "none"
        THEN /\ Raise("generate")
             /\ UNCHANGED <<initial_query, current_query, best_query, searched>>
        ELSE IF llm.status # "ok"
        THEN /\ Raise("generate")
             /\ UNCHANGED <<initial_query, current_query, best_query, searched>>
        ELSE /\ initial_query' = llm.text
             /\ current_query' = llm.text
             /\ best_query' = llm.text
             /\ searched' = <<llm.text>>
             /\ pc' = "search"
             /\ UNCHANGED response
    /\ llm_calls' = IF ChooseBackend(settings) = "none" THEN llm_calls
                    ELSE Append(llm_calls, ChooseBackend(settings))
    /\ UNCHANGED <<settings, max_iterations, iterations, best_score,
                   search_result, evaluation, score, i, rewrites, fetched,
                   answered>>
    /\ UNCHANGED <<body, parked, running>>
    /\ UNCHANGED evVars

\* pubmed_service.search(current_query) returns or raises; then the
\* evaluation, up to the fetch of the abstracts sample (lines 61-69, 112-120)
SearchAnswered(r) ==
    /\ \E result \in {search(current_query, r.esearch, r.esummary)} :
       \E ev \in {evaluate_search_result(result)} :
            /\ answered' = r
            /\ IF result.status = "raised"
                THEN /\ Raise("search")
                     /\ UNCHANGED <<search_result, evaluation, score, iterations,
                                    best_query, best_score, i>>
                ELSE /\ search_result' = result
                     /\ evaluation' = ev
                     /\ score' = ev.overall_score
                     /\ IF result.ids # <<>>
                        THEN /\ pc' = "abstracts"
                             /\ UNCHANGED <<iterations, best_query, best_score, i,
                                            response>>
                        ELSE RecordIteration(result, ev, ev.overall_score)
    /\ fetched' = "none"
    /\ UNCHANGED <<settings, max_iterations, initial_query, current_query,
                   searched, rewrites>>
    /\ UNCHANGED reqVars
    /\ UNCHANGED evVars

Search ==
    /\ pc = "search"
    /\ \E r \in BackendResponses : SearchAnswered(r)

\* get_article_abstracts(ids, sample_size=5) returns; then the iteration is
\* recorded (lines 69-99, 120-147).  The QueryIteration schema has no
\* abstracts_sample field: the sample is not kept.
FetchAbstracts ==
    /\ pc = "abstracts"
    /\ \E efetch \in SampleEfetchResponses :
        /\ fetched' = IF efetch.status = "ok" THEN "sample_ok"
                      ELSE "sample_failed"
        /\ RecordIteration(search_result, evaluation, score)
    /\ UNCHANGED <<settings, max_iterations, initial_query, current_query,
                   search_result, evaluation, score, searched, rewrites,
                   answered>>
    /\ UNCHANGED reqVars
    /\ UNCHANGED evVars

\* _generate_refined_query returns (its own abstracts fetch included); then
\* the no-progress check and the next search call (lines 103-112)
GenerateRefinedQuery ==
    /\ pc = "rewrite"
    /\ \E efetch \in RewriteEfetchResponses :
        \E abstracts_data \in {get_article_abstracts(search_result.ids, efetch)} :
        \E refined_query \in {generate_refined_query(current_query, evaluation,
                                                     abstracts_data)} :
            /\ fetched' = IF search_result.ids = <<>> THEN "none"
                          ELSE IF efetch.status = "ok" THEN "rewrite_ok"
                          ELSE "rewrite_failed"
            /\ rewrites' = Append(rewrites, refined_query)
            /\ IF IsNoProgress(refined_query, current_query)
               THEN /\ Return(best_query, iterations)
                    /\ UNCHANGED <<current_query, searched>>
               ELSE /\ current_query' = refined_query
                    /\ searched' = Append(searched, refined_query)
                    /\ pc' = "search"
                    /\ UNCHANGED response
    /\ UNCHANGED <<settings, max_iterations, initial_query, iterations,
                   best_query, best_score, search_result, evaluation, score, i,
                   answered>>
    /\ UNCHANGED reqVars
    /\ UNCHANGED evVars

EvIdle ==
    /\ ev_result = NoResult
    /\ ev_out = NoEvaluation
    /\ ev_prev = NoEvaluation
    /\ ev_again = NoEvaluation

Init == RunInit /\ EvIdle

Next ==
    \/ GenerateInitialQuery
    \/ Search
    \/ FetchAbstracts
    \/ GenerateRefinedQuery

Spec == Init /\ [][Next]_vars

---------------------------------------------------------------------------
(* Runs whose first search is answered as in the two worked scenarios *)

\* 300 hits, five sampled titles, three of them with "randomized" in them
\* and none with a review term
AnswerGoodAtOnce ==
    Backend(Esearch("ok", 300, SomeIds),
            Esummary("ok", <<TitleTrial, TitleTrial, TitleTrial,
                             TitlePlain, TitlePlain>>))

\* 42 hits and no sample data
AnswerNarrow == Backend(Esearch("ok", 42, SomeIds), Esummary("ok", <<>>))

ScenarioResponses == {AnswerGoodAtOnce, AnswerNarrow}

\* pubmed_service.search: the first search of the run is answered with a
\* scenario's answer, every later one with any answer
ScenarioSearch ==
    /\ pc = "search"
    /\ \E r \in (IF iterations = <<>> THEN ScenarioResponses
                 ELSE BackendResponses \cup ScenarioResponses) :
          SearchAnswered(r)

ScenarioNext ==
    \/ GenerateInitialQuery
    \/ ScenarioSearch
    \/ FetchAbstracts
    \/ GenerateRefinedQuery

ScenarioSpec == Init /\ [][ScenarioNext]_vars

---------------------------------------------------------------------------
(* The request from its arrival: the body is validated against PICOTTQuery
   before search_pubmed is called *)

RequestBodies ==
    {RequestBody(FALSE, ""), RequestBody(TRUE, ""),
     RequestBody(TRUE, PicottText)}

RequestInit ==
    /\ pc = "validate"
    /\ body \in RequestBodies
    /\ parked = NoFrame
    /\ running = 1
    /\ LocalsInit
    /\ EvIdle

\* PICOTTQuery: picott_text is a required field of type str, with no
\* constraint on its length; a body without it is answered 422 and
\* search_pubmed is not called
ValidateRequest ==
    /\ pc = "validate"
    /\ IF ~body.present
       THEN /\ pc' = "rejected"
            /\ response' = [status |-> 422]
       ELSE /\ pc' = "generate"
            /\ UNCHANGED response
    /\ UNCHANGED <<settings, max_iterations, initial_query, current_query,
                   iterations, best_query, best_score, search_result,
                   evaluation, score, i, searched, rewrites, fetched,
                   answered>>
    /\ UNCHANGED reqVars
    /\ UNCHANGED evVars

RequestNext ==
    \/ ValidateRequest
    \/ GenerateInitialQuery
    \/ Search
    \/ FetchAbstracts
    \/ GenerateRefinedQuery

RequestSpec == RequestInit /\ [][RequestNext]_vars

---------------------------------------------------------------------------
(* Two requests served by one event loop: every await is a point where the
   loop may resume the other request.  The frame variables hold the locals
   of the request that is running; parked holds the locals of the other. *)

\* the call frames of the running request: search_pubmed's and
\* refine_query's locals (the service objects search_pubmed constructs hold
\* nothing a request writes)
Frame ==
    [pc |-> pc, body |-> body,
     max_iterations |-> max_iterations,
     initial_query |-> initial_query,
     current_query |-> current_query, iterations |-> iterations,
     best_query |-> best_query, best_score |-> best_score,
     search_result |-> search_result, evaluation |-> evaluation,
     score |-> score, i |-> i, response |-> response,
     searched |-> searched, rewrites |-> rewrites,
     fetched |-> fetched, answered |-> answered]

\* the frame of a request that has not started, with its iteration budget
FreshFrame(budget) ==
    [pc |-> "generate", body |-> RequestBody(TRUE, PicottText),
     max_iterations |-> budget, initial_query |-> NoQuery,
     current_query |-> NoQuery, iterations |-> <<>>, best_query |-> NoQuery,
     best_score |-> Zero, search_result |-> NoResult,
     evaluation |-> NoEvaluation, score |-> Zero, i |-> 1,
     response |-> NoResponse, searched |-> <<>>, rewrites |-> <<>>,
     fetched |-> "none", answered |-> NoAnswer]

ConcurrentInit ==
    /\ pc = "generate"
    /\ body = RequestBody(TRUE, PicottText)
    /\ LocalsInit
    /\ settings = [DEEPSEEK_API_KEY |-> TRUE, OPENAI_API_KEY |-> FALSE]
    /\ max_iterations = 2
    /\ parked = FreshFrame(1)
    /\ running = 1
    /\ EvIdle

\* an event loop whose requests share one evaluator that keeps best_query
\* and best_score
Switch_shared ==
    /\ parked # NoFrame
    /\ parked' = Frame
    /\ running' = 3 - running
    /\ pc' = parked.pc
    /\ body' = parked.body
    /\ max_iterations' = parked.max_iterations
    /\ initial_query' = parked.initial_query
    /\ current_query' = parked.current_query
    /\ iterations' = parked.iterations
    /\ search_result' = parked.search_result
    /\ evaluation' = parked.evaluation
    /\ score' = parked.score
    /\ i' = parked.i
    /\ response' = parked.response
    /\ searched' = parked.searched
    /\ rewrites' = parked.rewrites
    /\ fetched' = parked.fetched
    /\ answered' = parked.answered
    /\ UNCHANGED <<best_query, best_score>>
    /\ UNCHANGED <<settings, llm_calls>>
    /\ UNCHANGED evVars

\* the event loop suspends the running request at its await and resumes the
\* other one: each request finds its own locals as it left them
Switch ==
    /\ parked # NoFrame
    /\ parked' = Frame
    /\ running' = 3 - running
    /\ pc' = parked.pc
    /\ body' = parked.body
    /\ max_iterations' = parked.max_iterations
    /\ initial_query' = parked.initial_query
    /\ current_query' = parked.current_query
    /\ iterations' = parked.iterations
    /\ best_query' = parked.best_query
    /\ best_score' = parked.best_score
    /\ search_result' = parked.search_result
    /\ evaluation' = parked.evaluation
    /\ score' = parked.score
    /\ i' = parked.i
    /\ response' = parked.response
    /\ searched' = parked.searched
    /\ rewrites' = parked.rewrites
    /\ fetched' = parked.fetched
    /\ answered' = parked.answered
    /\ UNCHANGED <<settings, llm_calls>>
    /\ UNCHANGED evVars

ConcurrentNext ==
    \/ GenerateInitialQuery
    \/ Search
    \/ FetchAbstracts
    \/ GenerateRefinedQuery
    \/ Switch

ConcurrentSpec == ConcurrentInit /\ [][ConcurrentNext]_vars

---------------------------------------------------------------------------
(* The evaluator applied on its own to bounded search results *)

\* every list of at most n titles
RECURSIVE TitleLists(_)
TitleLists(n) ==
    IF n = 0 THEN {<<>>}
    ELSE LET shorter == TitleLists(n - 1)
         IN  shorter \cup {Append(l, t) : l \in {x \in shorter : Len(x) = n - 1},
                                          t \in Titles}

AllSamples == {None} \cup TitleLists(MaxSample)
FewSamples == {None, <<>>, <<TitleBoth>>, <<TitleTrial, TitlePlain>>}
KeyCounts == {0, 19, 20, 42, 99, 100, 300, 500, 501, 1000, 1001}

SearchResult(count, titles) ==
    [status |-> "ok", total_count |-> count,
     ids |-> IF count = 0 THEN <<>> ELSE SomeIds, sample_titles |-> titles]

EvInputs ==
    {SearchResult(c, t) : c \in 0..MaxCount, t \in FewSamples}
    \cup {SearchResult(c, t) : c \in KeyCounts, t \in AllSamples}

RunIdle ==
    /\ pc = "idle"
    /\ llm_calls = <<>>
    /\ body = RequestBody(TRUE, PicottText)
    /\ parked = NoFrame
    /\ running = 1
    /\ settings = [DEEPSEEK_API_KEY |-> FALSE, OPENAI_API_KEY |-> FALSE]
    /\ max_iterations = 1
    /\ initial_query = NoQuery
    /\ current_query = NoQuery
    /\ iterations = <<>>
    /\ best_query = NoQuery
    /\ best_score = Zero
    /\ search_result = NoResult
    /\ evaluation = NoEvaluation
    /\ score = Zero
    /\ i = 1
    /\ response = NoResponse
    /\ searched = <<>>
    /\ rewrites = <<>>
    /\ fetched = "none"
    /\ answered = NoAnswer

EvInit ==
    /\ RunIdle
    /\ ev_result \in EvInputs
    /\ ev_out = NoEvaluation
    /\ ev_prev = NoEvaluation
    /\ ev_again = NoEvaluation

\* an evaluation that _evaluate_search_result returned (its issues are never
\* empty)
Evaluated(ev) == ev.issues # <<>>

\* _evaluate_search_result(result)
Evaluate ==
    /\ ~Evaluated(ev_out)
    /\ ev_out' = evaluate_search_result(ev_result)
    /\ UNCHANGED <<ev_result, ev_prev, ev_again>>
    /\ UNCHANGED runVars

\* _evaluate_search_result of the same result with one more hit, the
\* evaluation before it kept for comparison
EvaluateNext ==
    /\ Evaluated(ev_out)
    /\ ~Evaluated(ev_prev)
    /\ ~Evaluated(ev_again)
    /\ ev_result.total_count < MaxCount
    /\ ev_prev' = ev_out
    /\ ev_result' = SearchResult(ev_result.total_count + 1,
                                 ev_result.sample_titles)
    /\ ev_out' = evaluate_search_result(ev_result')
    /\ UNCHANGED ev_again
    /\ UNCHANGED runVars

\* a second call whose title counters start from the first call's
EvaluateAgain_carried ==
    /\ Evaluated(ev_out)
    /\ ~Evaluated(ev_prev)
    /\ ~Evaluated(ev_again)
    /\ ev_again' = [evaluate_search_result(ev_result) EXCEPT
                       !.primary_studies_ratio =
                           RAdd(@, ev_out.primary_studies_ratio)]
    /\ UNCHANGED <<ev_result, ev_out, ev_prev>>
    /\ UNCHANGED runVars

\* _evaluate_search_result(result) called a second time on the same result:
\* it reads the result and self.keywords, which no call writes
EvaluateAgain ==
    /\ Evaluated(ev_out)
    /\ ~Evaluated(ev_prev)
    /\ ~Evaluated(ev_again)
    /\ ev_again' = evaluate_search_result(ev_result)
    /\ UNCHANGED <<ev_result, ev_out, ev_prev>>
    /\ UNCHANGED runVars

EvNext == Evaluate \/ EvaluateNext \/ EvaluateAgain

EvalSpec == EvInit /\ [][EvNext]_vars

---------------------------------------------------------------------------
(* Properties *)

Last(seq) == seq[Len(seq)]

\* the good-enough predicate as the specification words it
GoodEnough(ev) ==
    /\ 100 <= ev.total_count /\ ev.total_count <= 500
    /\ RGe(ev.primary_studies_ratio, <<3, 10>>)
    /\ RGe(ev.overall_score, <<7, 10>>)

\* the last Rewriter call returned the query it was given (the query of the
\* record it followed)
RewriteWasNoOp ==
    /\ rewrites # <<>>
    /\ Len(rewrites) <= Len(iterations)
    /\ Last(rewrites) = iterations[Len(rewrites)].query

\* C1: the good-enough predicate is checked on every recorded iteration, the
\* first included: a record that satisfies it is the last one, the run is
\* done, and no Rewriter call and no search followed it; a run that is done
\* with budget left and a last record that fails the predicate went on to
\* the Rewriter after that record.
C1_GoodEnoughStopsRun ==
    /\ \A k \in 1..Len(iterations) :
          GoodEnough(iterations[k].evaluation) =>
              /\ k = Len(iterations)
              /\ pc = "done"
              /\ Len(rewrites) = k - 1
              /\ Len(searched) = k
    /\ (pc = "done" /\ ~GoodEnough(Last(iterations).evaluation)
            /\ Len(iterations) < max_iterations)
          => Len(rewrites) = Len(iterations)

C1_Witness ==
    /\ pc = "done"
    /\ Len(iterations) = 2
    /\ GoodEnough(iterations[2].evaluation)
    /\ ~GoodEnough(iterations[1].evaluation)
    /\ max_iterations = 3

\* the largest overall_score among the records, and the first record with it
MaxScore(its) ==
    CHOOSE m \in {its[k].evaluation.overall_score : k \in 1..Len(its)} :
        \A k \in 1..Len(its) : RLe(its[k].evaluation.overall_score, m)

FirstBest(its) ==
    CHOOSE k \in 1..Len(its) :
        /\ its[k].evaluation.overall_score = MaxScore(its)
        /\ \A j \in 1..(k - 1) : its[j].evaluation.overall_score # MaxScore(its)

\* C2: after every completed iteration best_score is the largest
\* overall_score recorded and best_query the query of the first record with
\* it, and the query returned is that best_query.
C2_BestTracking ==
    (iterations # <<>> /\ pc \in {"rewrite", "search", "abstracts", "done"})
        => /\ best_score = MaxScore(iterations)
           /\ best_query = iterations[FirstBest(iterations)].query
           /\ (pc = "done" => response.best_pubmed_query = best_query)

\* C3: a Rewriter answer identical to the current query ends the run with no
\* further search and no further record; when the first two Rewriter answers
\* are the same string the run made exactly two searches and holds exactly
\* two records.
C3_NoProgressStops ==
    /\ RewriteWasNoOp =>
          /\ pc = "done"
          /\ Len(iterations) = Len(rewrites)
          /\ Len(searched) = Len(rewrites)
    /\ (Len(rewrites) >= 2 /\ rewrites[1] = rewrites[2]) =>
          /\ pc = "done"
          /\ Len(searched) = 2
          /\ Len(iterations) = 2

C3_Witness ==
    /\ Len(rewrites) = 2
    /\ rewrites[1] = rewrites[2]
    /\ pc = "done"
    /\ max_iterations = 3

\* C4: the history never holds more than max_iterations records and at most
\* max_iterations searches are issued.
C4_Budget ==
    /\ Len(iterations) <= max_iterations
    /\ Len(searched) <= max_iterations

C4_Witness ==
    /\ max_iterations = 3
    /\ Len(iterations) = 3
    /\ Len(searched) = 3
    /\ Len(rewrites) = 2

\* every awaited call eventually returns or fails
FairSpec == Spec /\ WF_vars(Next)

\* C5: when every awaited call returns or fails, every run eventually ends;
\* a run that ends with a result stopped on the good-enough check, on a
\* Rewriter answer equal to the current query, or with max_iterations
\* records.
C5_Terminates ==
    /\ <>(pc \in {"done", "error"})
    /\ [](pc = "done" =>
            \/ GoodEnough(Last(iterations).evaluation)
            \/ RewriteWasNoOp
            \/ Len(iterations) = max_iterations)

C5_Witness ==
    /\ pc = "done"
    /\ max_iterations = 2
    /\ Len(iterations) = 2
    /\ ~GoodEnough(Last(iterations).evaluation)
    /\ ~RewriteWasNoOp

\* C6: a failed search call ends the run with an error: the query whose
\* search failed has no record, and no Gateway or Rewriter call follows.
C6_SearchFailureAborts ==
    answered.esearch.status = "error" =>
        /\ pc = "error"
        /\ response.status = 500
        /\ Len(iterations) = Len(searched) - 1
        /\ \A k \in 1..Len(iterations) : iterations[k].query = searched[k]
        /\ Len(rewrites) = Len(iterations)
        /\ ~ENABLED Next

C6_Witness ==
    /\ answered.esearch.status = "error"
    /\ pc = "error"
    /\ Len(iterations) = 2
    /\ Len(searched) = 3

\* C7: a failed fetch of abstracts or of the sample metadata never ends the
\* run: the search result keeps its total_count with an empty sample, the
\* iteration is recorded with that total_count, and the rewrite is the one
\* computed with no abstracts.
C7_EnrichmentFailureContinues ==
    /\ (answered.esearch.status = "ok" /\ answered.esearch.ids # <<>>
            /\ answered.esearch.count > 0 /\ answered.esummary.status = "error")
          => /\ pc # "error"
             /\ search_result.total_count = answered.esearch.count
             /\ search_result.sample_titles = <<>>
    /\ fetched = "sample_failed" =>
          /\ pc \in {"rewrite", "done"}
          /\ Len(iterations) = Len(searched)
          /\ Last(iterations).result_count = answered.esearch.count
          /\ Last(iterations).evaluation = evaluation
    /\ fetched = "rewrite_failed" =>
          /\ pc \in {"search", "done"}
          /\ Last(rewrites) =
                generate_refined_query(iterations[Len(rewrites)].query,
                                       iterations[Len(rewrites)].evaluation,
                                       <<>>)

C7_Witness ==
    /\ fetched = "sample_failed"
    /\ pc = "rewrite"
    /\ answered.esummary.status = "error"
    /\ Len(iterations) = 2
    /\ Last(iterations).result_count = 15

\* C8: a request ends with a complete result (best query and the whole
\* history) or with a single error, never with both, never with a result
\* that lacks one of them, and has no outcome before it ends.
C8_ResultOrError ==
    /\ pc = "done" =>
          /\ DOMAIN response = {"status", "original_query",
                                "best_pubmed_query", "iterations"}
          /\ response.status = 200
          /\ response.best_pubmed_query # NoQuery
          /\ response.iterations = iterations
          /\ Len(response.iterations) = Len(searched)
          /\ Len(response.iterations) >= 1
    /\ pc = "error" =>
          /\ DOMAIN response = {"status", "detail"}
          /\ response.status = 500
    /\ pc \notin {"done", "error"} => response = NoResponse

C8_Witness ==
    /\ pc = "done"
    /\ response.status = 200
    /\ Len(response.iterations) = 3
    /\ response.best_pubmed_query = response.iterations[2].query

\* C9: the count score is 1 on [100,500], 0 at 0, total_count/100 below 100
\* and 500/total_count above 500; it grows strictly with total_count below
\* 100 and falls strictly above 500.
C9_CountScore ==
    Evaluated(ev_out) =>
        LET c == ev_result.total_count
            cs == ev_out.count_score
        IN  /\ (100 <= c /\ c <= 500) => cs = <<1, 1>>
            /\ c = 0 => cs = <<0, 1>>
            /\ (0 <= c /\ c < 100) => cs[1] * 100 = c * cs[2]
            /\ c > 500 => cs[1] * c = 500 * cs[2]
            /\ (Evaluated(ev_prev) /\ c < 100)
                  => RLt(ev_prev.count_score, cs)
            /\ (Evaluated(ev_prev) /\ ev_prev.total_count > 500)
                  => RLt(cs, ev_prev.count_score)

C9_Witness ==
    /\ Evaluated(ev_prev)
    /\ ev_prev.total_count = 501
    /\ ev_result.total_count = 502
    /\ RLt(ev_out.count_score, ev_prev.count_score)

InUnit(x) == RLe(<<0, 1>>, x) /\ RLe(x, <<1, 1>>)

\* C10: for every total_count >= 0 and every sample of titles, none
\* included, the five scores of the evaluation lie in [0,1].
C10_ScoresInUnit ==
    Evaluated(ev_out) =>
        /\ InUnit(ev_out.overall_score)
        /\ InUnit(ev_out.count_score)
        /\ InUnit(ev_out.primary_studies_ratio)
        /\ InUnit(ev_out.systematic_reviews_ratio)
        /\ InUnit(ev_out.average_relevance)

C10_Witness ==
    /\ Evaluated(ev_out)
    /\ ev_result.total_count = 300
    /\ ev_result.sample_titles = <<TitleBoth, TitleBoth>>
    /\ ev_out.overall_score = <<1, 1>>

\* the title samples that differ from a sample in one title
OneTitleChanged(titles) ==
    IF ~Truthy(titles) THEN {}
    ELSE {[titles EXCEPT ![k] = t] : k \in 1..Len(titles), t \in Titles}

\* x <= y for non-negative rationals, compared by their continued fractions
\* so that no product of two denominators is formed
LeqCF[a \in Nat, b \in Nat, c \in Nat, d \in Nat] ==
    IF a \div b # c \div d THEN a \div b < c \div d
    ELSE IF a % b = 0 THEN TRUE
    ELSE IF c % d = 0 THEN FALSE
    ELSE LeqCF[d, c % d, b, a % b]

Leq(x, y) == LeqCF[x[1], x[2], y[1], y[2]]

C12_ZeroResult ==
    (ev_result.total_count = 0 /\ ev_result.ids = <<>>
        /\ ~Truthy(ev_result.sample_titles))
      => LET ev == evaluate_search_result(ev_result)
         IN  /\ DOMAIN ev = DOMAIN NoEvaluation
             /\ ev.count_score = <<0, 1>>
             /\ ev.primary_studies_ratio = <<0, 1>>
             /\ ev.systematic_reviews_ratio = <<0, 1>>
             /\ ev.average_relevance = <<0, 1>>
             /\ ev.overall_score = <<0, 1>>
             /\ Evaluated(ev_out) => ev_out = ev

C12_Witness ==
    /\ ev_result.total_count = 0
    /\ ev_result.sample_titles = None
    /\ Evaluated(ev_out)
    /\ ev_out.overall_score = <<0, 1>>

\* is one of the messages in the diagnosis
Reports(ev, msg) == \E k \in 1..Len(ev.issues) : ev.issues[k] = msg

\* C13: above 1000 hits the diagnosis reports the extremely-broad issue and
\* not the too-broad one; from 501 to 1000 hits it reports the too-broad one.
C13_ExtremelyBroad ==
    Evaluated(ev_out) =>
        /\ ev_out.total_count > 1000 =>
              Reports(ev_out, MsgVeryBroad) /\ ~Reports(ev_out, MsgBroad)
        /\ (500 < ev_out.total_count /\ ev_out.total_count <= 1000) =>
              Reports(ev_out, MsgBroad)

\* C14: the diagnosis is the no-issue sentinel exactly when 100 <=
\* total_count <= 500, primary ratio >= 0.2 and (review ratio >= 0.1 or
\* primary ratio >= 0.3); otherwise it lists an issue; it is never empty.
C14_NoIssueSentinel ==
    Evaluated(ev_out) =>
        LET c == ev_out.total_count
            p == ev_out.primary_studies_ratio
            r == ev_out.systematic_reviews_ratio
            clean == /\ 100 <= c /\ c <= 500
                     /\ 10 * p[1] >= 2 * p[2]
                     /\ (10 * r[1] >= r[2] \/ 10 * p[1] >= 3 * p[2])
        IN  /\ ev_out.issues # <<>>
            /\ clean <=> ev_out.issues = <<MsgNoIssue>>
            /\ ~clean => /\ ~Reports(ev_out, MsgNoIssue)
                          /\ \E msg \in {MsgVerySpecific, MsgSpecific, MsgBroad,
                                          MsgVeryBroad, MsgLowPrimary,
                                          MsgFewRelevant} : Reports(ev_out, msg)

C14_Witness ==
    /\ Evaluated(ev_out)
    /\ ev_out.total_count = 300
    /\ ev_out.primary_studies_ratio = <<1, 4>>
    /\ ev_out.systematic_reviews_ratio = <<1, 4>>
    /\ ev_out.issues = <<MsgNoIssue>>

\* the Rewriter call that followed record k was a no-op that ended the run
RewriteKept(k) ==
    /\ rewrites[k] = iterations[k].query
    /\ Len(rewrites) = k
    /\ Len(searched) = k
    /\ pc = "done"

\* C15: a Rewriter call that follows a record whose diagnosis is the no-issue
\* sentinel returns that record's query unchanged, whatever the total count,
\* and the run ends there without another search.
C15_NoIssueKeepsQuery ==
    \A k \in 1..Len(rewrites) :
        iterations[k].evaluation.issues = <<MsgNoIssue>> => RewriteKept(k)

\* the diagnosis contains a narrow-count issue
Narrow(ev) == Reports(ev, MsgVerySpecific) \/ Reports(ev, MsgSpecific)

\* C16: a Rewriter call that follows a record diagnosed as narrow
\* (total_count < 100) never adds a conjunctive (AND) restriction: its answer has
\* no more ANDs than the query it was given.
C16_NarrowNeverRestricts ==
    \A k \in 1..Len(rewrites) :
        Narrow(iterations[k].evaluation) =>
            /\ iterations[k].evaluation.total_count < 100
            /\ CountAnd(rewrites[k]) <= CountAnd(iterations[k].query)

\* the two disjunctions of primary-study-type terms the Rewriter can AND in
StudyTypeSuffixes ==
    {<<"AND", "(">>
        \o OrJoin(<<"trial", "randomized", "controlled", "cohort",
                    "prospective", "retrospective">>)
        \o <<")">>,
     <<"AND", "(", "randomized", "[tiab]", "OR", "trial", "[tiab]", ")">>}

\* C17: when low primary-study ratio is the only diagnosed issue, the
\* Rewriter's answer is the query it was given AND a disjunction of
\* primary-study-type terms.
C17_LowPrimaryAddsStudyTypes ==
    \A k \in 1..Len(rewrites) :
        iterations[k].evaluation.issues = <<MsgLowPrimary>> =>
            \E suffix \in StudyTypeSuffixes :
                rewrites[k] = iterations[k].query \o suffix

\* C18: given a non-empty initial query, every query the run executes,
\* records or returns is non-empty: no answer of the Rewriter is the empty
\* string.
C18_NeverEmptyQuery ==
    initial_query # <<>> =>
        /\ current_query # <<>>
        /\ best_query # <<>>
        /\ \A k \in 1..Len(searched) : searched[k] # <<>>
        /\ \A k \in 1..Len(rewrites) : rewrites[k] # <<>>
        /\ \A k \in 1..Len(iterations) : iterations[k].query # <<>>
        /\ pc = "done" =>
              /\ response.best_pubmed_query # <<>>
              /\ \A k \in 1..Len(response.iterations) :
                    response.iterations[k].query # <<>>

\* a run whose first rewrite dropped the last AND-part of a four-part query
\* and whose second rewrite rebuilt the query from the abstracts
C18_Witness ==
    /\ pc = "done"
    /\ initial_query = QueryLong
    /\ Len(rewrites) = 2
    /\ rewrites[1] = DropLastPart(QueryLong)
    /\ rewrites[2][1] = "("
    /\ response.best_pubmed_query # <<>>

\* the first search of the run was answered with a and no rewrite followed yet
FirstAnswered(a) ==
    /\ Len(searched) = 1
    /\ answered = a
    /\ search_result # NoResult

\* C19: when the initial search returns 300 hits and five sampled titles, three
\* of them with "randomized" and none with a review term, the evaluation has
\* primary ratio 0.6, count score 1.0, average relevance 0.42 and overall score
\* 0.722, the good-enough predicate holds, and the run stops at iteration 1: it
\* returns initial_query with a one-record history, no Rewriter call and no
\* second search.
C19_GoodAtOnce ==
    /\ FirstAnswered(AnswerGoodAtOnce) =>
          /\ evaluation.total_count = 300
          /\ evaluation.primary_studies_ratio = <<3, 5>>
          /\ evaluation.systematic_reviews_ratio = <<0, 1>>
          /\ evaluation.count_score = <<1, 1>>
          /\ evaluation.average_relevance = <<21, 50>>
          /\ evaluation.overall_score = <<361, 500>>
          /\ GoodEnough(evaluation)
          /\ pc \in {"abstracts", "done"}
          /\ rewrites = <<>>
    /\ (iterations # <<>> /\ iterations[1].result_count = 300
           /\ iterations[1].evaluation.primary_studies_ratio = <<3, 5>>) =>
          /\ pc = "done"
          /\ Len(iterations) = 1
          /\ iterations[1].query = initial_query
          /\ iterations[1].evaluation.overall_score = <<361, 500>>
          /\ rewrites = <<>>
          /\ searched = <<initial_query>>
          /\ response.status = 200
          /\ response.best_pubmed_query = initial_query
          /\ response.iterations = iterations

C19_Witness ==
    /\ FirstAnswered(AnswerGoodAtOnce)
    /\ pc = "done"
    /\ max_iterations = 3
    /\ Len(iterations) = 1
    /\ iterations[1].evaluation.overall_score = <<361, 500>>
    /\ response.best_pubmed_query = initial_query

\* C20: when the initial search returns 42 hits and no sample data, the
\* evaluation has count score 0.42, primary ratio 0 and overall score 0.21, its
\* issues contain the moderately-narrow issue and not the very-few-results
\* issue, and with max_iterations >= 2 the run does not stop after iteration 1:
\* the Rewriter is invoked.
C20_NarrowGoesOn ==
    /\ FirstAnswered(AnswerNarrow) =>
          /\ evaluation.total_count = 42
          /\ evaluation.count_score = <<21, 50>>
          /\ evaluation.primary_studies_ratio = <<0, 1>>
          /\ evaluation.overall_score = <<21, 100>>
          /\ Reports(evaluation, MsgSpecific)
          /\ ~Reports(evaluation, MsgVerySpecific)
          /\ ~GoodEnough(evaluation)
    /\ (iterations # <<>> /\ iterations[1].result_count = 42
           /\ max_iterations >= 2) =>
          /\ iterations[1].evaluation.overall_score = <<21, 100>>
          /\ Reports(iterations[1].evaluation, MsgSpecific)
          /\ ~Reports(iterations[1].evaluation, MsgVerySpecific)
          /\ \/ pc = "rewrite" /\ Len(iterations) = 1 /\ rewrites = <<>>
             \/ Len(rewrites) >= 1

C20_Witness ==
    /\ iterations # <<>>
    /\ iterations[1].result_count = 42
    /\ iterations[1].evaluation.overall_score = <<21, 100>>
    /\ max_iterations = 2
    /\ Len(rewrites) = 1
    /\ Len(searched) = 2

C22_EmptyResultIsNotAnError ==
    /\ (answered.esearch.status = "ok" /\ answered.esearch.ids = <<>>) =>
          /\ pc \in {"rewrite", "search", "done"}
          /\ search_result.status = "ok"
          /\ search_result.total_count = 0
          /\ search_result.ids = <<>>
          /\ iterations # <<>>
          /\ pc \in {"rewrite", "done"} =>
                /\ Len(iterations) = Len(searched)
                /\ Last(iterations).result_count = 0
    /\ (pc = "error" /\ response = ErrorResponse("search")) <=>
          answered.esearch.status = "error"

C22_Witness ==
    /\ answered.esearch.status = "ok"
    /\ answered.esearch.ids = <<>>
    /\ pc = "rewrite"
    /\ Len(iterations) = 2
    /\ Last(iterations).result_count = 0
    /\ Last(iterations).evaluation.overall_score = Zero

\* C23: a request whose picott_text is missing or is the empty string is
\* rejected with status 422 before any query generation, any search and any
\* iteration.
C23_EmptyTextRejected ==
    (~body.present \/ body.picott_text = "") =>
        /\ pc \in {"validate", "rejected"}
        /\ pc = "rejected" => response = [status |-> 422]
        /\ initial_query = NoQuery
        /\ searched = <<>>
        /\ iterations = <<>>

\* neither a DeepSeek nor an OpenAI key is configured
NoBackendConfigured ==
    ~settings.DEEPSEEK_API_KEY /\ ~settings.OPENAI_API_KEY

\* C24: when no generative backend is configured the request fails with an
\* error at query generation: no search is ever issued, no iteration record
\* exists and no initial query was produced.
C24_NoBackendFailsFirst ==
    NoBackendConfigured =>
        /\ pc \in {"generate", "error"}
        /\ pc = "error" => response = ErrorResponse("generate")
        /\ initial_query = NoQuery
        /\ searched = <<>>
        /\ answered = NoAnswer
        /\ iterations = <<>>
        /\ rewrites = <<>>

C24_Witness ==
    /\ NoBackendConfigured
    /\ pc = "error"
    /\ response.status = 500
    /\ searched = <<>>
    /\ iterations = <<>>

\* what holds of the locals of a request that runs alone: its searches start
\* with its initial query, its records are those of its own searches, its
\* best query and best score come from its own history, and its answer is
\* built from its own best query and history
FrameAlone(f) ==
    /\ f.searched # <<>> =>
          /\ f.searched[1] = f.initial_query
          /\ f.current_query = Last(f.searched)
    /\ Len(f.iterations) <= Len(f.searched)
    /\ Len(f.searched) <= f.max_iterations
    /\ \A k \in 1..Len(f.iterations) :
          /\ f.iterations[k].query = f.searched[k]
          /\ f.iterations[k].iteration_number = k
    /\ \A k \in 1..Len(f.rewrites) :
          k < Len(f.searched) => f.searched[k + 1] = f.rewrites[k]
    /\ f.best_query \in
          {f.initial_query} \cup {f.searched[k] : k \in 1..Len(f.searched)}
    /\ f.best_score \in
          {Zero} \cup {f.iterations[k].evaluation.overall_score :
                          k \in 1..Len(f.iterations)}
    /\ f.pc = "done" =>
          /\ f.response.best_pubmed_query = f.best_query
          /\ f.response.iterations = f.iterations

\* a step of the running request leaves the other request's locals as they
\* are, and a switch hands each request exactly the locals it had
NoInterference ==
    /\ running' = running => parked' = parked
    /\ running' # running => parked' = Frame /\ Frame' = parked
    /\ settings' = settings

\* C25: two requests interleaved at every await each run as they would alone:
\* no step of one reads or writes the other's current_query, best_query,
\* best_score or history, and each returns the best query and history of its
\* own searches.
C25_RunsAreIsolated ==
    /\ [](FrameAlone(Frame) /\ FrameAlone(parked))
    /\ [][NoInterference]_vars

C25_Witness ==
    /\ running = 2
    /\ pc = "done"
    /\ parked.pc = "done"
    /\ Len(iterations) = 1
    /\ Len(parked.iterations) = 2
    /\ response.best_pubmed_query # parked.response.best_pubmed_query
    /\ iterations[1].query # parked.iterations[1].query

\* C26: the history a successful run returns is non-empty, its k-th record
\* carries iteration_number k, and its first record holds initial_query.
C26_HistoryNumbering ==
    /\ \A k \in 1..Len(iterations) : iterations[k].iteration_number = k
    /\ iterations # <<>> => iterations[1].query = initial_query
    /\ pc = "done" =>
          /\ response.iterations # <<>>
          /\ response.iterations[1].query = initial_query
          /\ \A k \in 1..Len(response.iterations) :
                response.iterations[k].iteration_number = k

C26_Witness ==
    /\ pc = "done"
    /\ Len(response.iterations) = 3
    /\ response.iterations[3].iteration_number = 3
    /\ response.iterations[1].query = initial_query
    /\ response.iterations[3].query # initial_query

\* C27: the Rewriter is invoked only after a record whose evaluation failed
\* the good-enough predicate and only while fewer than max_iterations records
\* exist: a run makes at most max_iterations - 1 Rewriter calls, none when
\* max_iterations = 1.
C27_RewriteOnlyWithBudget ==
    /\ Len(rewrites) <= max_iterations - 1
    /\ max_iterations = 1 => rewrites = <<>> /\ pc # "rewrite"
    /\ \A k \in 1..Len(rewrites) :
          /\ k <= Len(iterations)
          /\ k < max_iterations
          /\ ~GoodEnough(iterations[k].evaluation)
    /\ pc = "rewrite" =>
          /\ Len(rewrites) = Len(iterations) - 1
          /\ Len(iterations) < max_iterations
          /\ ~GoodEnough(Last(iterations).evaluation)

C27_Witness ==
    /\ max_iterations = 3
    /\ Len(rewrites) = 2
    /\ Len(iterations) = 3
    /\ pc = "done"
    /\ ~GoodEnough(iterations[3].evaluation)

\* the positions of the diagnosis that hold a count issue
CountIssues(ev) ==
    {k \in 1..Len(ev.issues) :
        ev.issues[k] \in {MsgVerySpecific, MsgSpecific, MsgBroad, MsgVeryBroad}}

\* C28: for total_count <= 1000 the diagnosis holds exactly one count issue
\* when total_count is outside [100,500] (too narrow iff below 20, moderately
\* narrow iff in [20,100), too broad iff above 500) and none inside it; it
\* holds the low-primary issue iff primary ratio < 0.2 and the few-relevant
\* issue iff review ratio < 0.1 and primary ratio < 0.3.
C28_Diagnosis ==
    (Evaluated(ev_out) /\ ev_out.total_count <= 1000) =>
        LET c == ev_out.total_count
            p == ev_out.primary_studies_ratio
            r == ev_out.systematic_reviews_ratio
        IN  /\ Cardinality(CountIssues(ev_out)) =
                  IF 100 <= c /\ c <= 500 THEN 0 ELSE 1
            /\ Reports(ev_out, MsgVerySpecific) <=> c < 20
            /\ Reports(ev_out, MsgSpecific) <=> (20 <= c /\ c < 100)
            /\ Reports(ev_out, MsgBroad) <=> c > 500
            /\ ~Reports(ev_out, MsgVeryBroad)
            /\ Reports(ev_out, MsgLowPrimary) <=> 10 * p[1] < 2 * p[2]
            /\ Reports(ev_out, MsgFewRelevant) <=>
                  (10 * r[1] < r[2] /\ 10 * p[1] < 3 * p[2])

C28_Witness ==
    /\ Evaluated(ev_out)
    /\ ev_out.total_count = 501
    /\ ev_out.primary_studies_ratio = <<1, 4>>
    /\ ev_out.systematic_reviews_ratio = <<0, 1>>
    /\ ev_out.issues = <<MsgBroad, MsgFewRelevant>>

\* abstracts with text from which neither a population nor an intervention
\* term is extracted
NoUsableTerm(abstracts_data) ==
    /\ \E k \in 1..Len(abstracts_data) : abstracts_data[k] # ""
    /\ ScanAbstracts(pop_patterns, abstracts_data, <<>>) = <<>>
    /\ ScanAbstracts(int_patterns, abstracts_data, <<>>) = <<>>

\* C29: at a Rewriter call, if the abstracts the fetch answers with yield no
\* usable term, the abstract-based rewrite returns the current query unchanged
\* in every refinement mode.
C29_NoTermIsNoOp ==
    pc = "rewrite" =>
        \A efetch \in RewriteEfetchResponses :
            \A mode \in {"expand", "restrict", "relevance"} :
                LET abstracts_data ==
                        get_article_abstracts(search_result.ids, efetch)
                IN  NoUsableTerm(abstracts_data) =>
                        refine_with_deepseek_llm(current_query, abstracts_data,
                                                 mode) = current_query

\* C30: when a search call fails at iteration 2 or later, the records of the
\* iterations completed before it are returned to the caller with the error.
C30_PartialHistoryReturned ==
    (pc = "error" /\ answered.esearch.status = "error" /\ Len(searched) >= 2) =>
        /\ iterations # <<>>
        /\ "iterations" \in DOMAIN response
        /\ response.iterations = iterations

\* the total_count search makes of a backend answer
CountOf(a) == IF a.esearch.ids = <<>> THEN 0 ELSE a.esearch.count

\* C31: in every record result_count equals the total_count echoed in the
\* record's evaluation, and for the record of the latest search both equal
\* the total_count of the search result obtained by executing its query.
C31_CountEchoed ==
    /\ \A k \in 1..Len(iterations) :
          iterations[k].result_count = iterations[k].evaluation.total_count
    /\ (iterations # <<>> /\ Len(iterations) = Len(searched)
           /\ pc \in {"rewrite", "done"}) =>
          /\ Last(iterations).query = Last(searched)
          /\ Last(iterations).result_count = search_result.total_count
          /\ Last(iterations).result_count = CountOf(answered)

C31_Witness ==
    /\ pc = "done"
    /\ Len(iterations) = 3
    /\ iterations[1].result_count = 15
    /\ iterations[2].result_count = 0
    /\ iterations[3].result_count = 700
    /\ iterations[3].evaluation.total_count = 700
    /\ answered.esearch.count = 700

\* C32: query generation calls DeepSeek whenever a DeepSeek key is
\* configured, OpenAI only when the DeepSeek key is absent and an OpenAI key is
\* present, and fails without a call when neither is configured; one
\* generation calls at most one backend, also when the call fails.
C32_BackendPriority ==
    /\ Len(llm_calls) <= 1
    /\ pc = "generate" => llm_calls = <<>>
    /\ pc # "generate" =>
          /\ settings.DEEPSEEK_API_KEY => llm_calls = <<"deepseek">>
          /\ (~settings.DEEPSEEK_API_KEY /\ settings.OPENAI_API_KEY) =>
                llm_calls = <<"openai">>
          /\ NoBackendConfigured => llm_calls = <<>> /\ pc = "error"

C32_Witness ==
    /\ settings.DEEPSEEK_API_KEY
    /\ settings.OPENAI_API_KEY
    /\ pc = "error"
    /\ initial_query = NoQuery
    /\ llm_calls = <<"deepseek">>

\* the run stopped because its last record satisfied the good-enough
\* predicate
StoppedGoodEnough ==
    /\ pc = "done"
    /\ iterations # <<>>
    /\ GoodEnough(Last(iterations).evaluation)

\* C33: when the run stops because an iteration satisfied the good-enough
\* predicate, the query it returns is the query of a record whose evaluation
\* satisfies the good-enough predicate.
C33_ReturnsGoodEnough ==
    StoppedGoodEnough =>
        \E k \in 1..Len(response.iterations) :
            /\ response.iterations[k].query = response.best_pubmed_query
            /\ GoodEnough(response.iterations[k].evaluation)

\* C34: the query refine_query returns is the query of some record of the
\* returned history, a query that was executed and evaluated in this run.
C34_ReturnedWasRun ==
    pc = "done" =>
        /\ response.iterations = iterations
        /\ response.iterations # <<>>
        /\ \E k \in 1..Len(response.iterations) :
              response.iterations[k].query = response.best_pubmed_query

C34_Witness ==
    /\ pc = "done"
    /\ Len(response.iterations) = 3
    /\ response.best_pubmed_query = response.iterations[2].query
    /\ response.best_pubmed_query # response.iterations[1].query
    /\ response.best_pubmed_query # response.iterations[3].query

\* C35: the queries of two consecutive records differ: a query is run in
\* iteration k+1 only if it is textually different from the query of
\* iteration k.
C35_ConsecutiveDiffer ==
    /\ \A k \in 1..(Len(iterations) - 1) :
          iterations[k].query # iterations[k + 1].query
    /\ \A k \in 1..(Len(searched) - 1) : searched[k] # searched[k + 1]

C35_Witness ==
    /\ Len(iterations) = 2
    /\ Len(searched) = 2
    /\ Len(rewrites) = 2
    /\ rewrites[1] # initial_query
    /\ rewrites[2] = iterations[2].query
    /\ max_iterations = 3
    /\ pc = "done"

\* C36: no query is run twice in one run: the queries of the records are
\* pairwise distinct, the rewrite never comes back to an earlier query.
C36_NoQueryTwice ==
    \A j \in 1..Len(iterations) : \A k \in 1..Len(iterations) :
        j # k => iterations[j].query # iterations[k].query

=============================================================================
